---- MODULE Spec2Model ----
(***************************************************************************)
(* A model of the snapgram web client: the optimistic like / save          *)
(* controller of PostStats, the session store of AuthProvider and the      *)
(* remote service facade (lib/appwrite/backend).  The Backend-as-a-Service *)
(* is the environment: every remote call resolves, resolves falsy or       *)
(* rejects, chosen nondeterministically.                                   *)
(***************************************************************************)
EXTENDS Integers, Sequences, FiniteSets, TLC

\* ---------------------------------------------------------------- bounds
\* Longest likes list a post arrives with.
MaxLikes == 3
\* Most clicks (like or save) on one mounted PostStats.
MaxClicks == 3

\* ------------------------------------------------------------ JS helpers
Users == {"u1", "u2", "u3"}

\* Array.prototype.includes
Includes(arr, x) == \E i \in 1..Len(arr) : arr[i] = x

\* Array.prototype.filter((Id) => Id !== x)
FilterOut(arr, x) == SelectSeq(arr, LAMBDA Id : Id # x)

\* Array.prototype.map((user) => user.$id)
MapId(arr) == [i \in 1..Len(arr) |-> arr[i].id]

\* number of occurrences of x in arr
Count(arr, x) == Cardinality({i \in 1..Len(arr) : arr[i] = x})

\* the set of elements of arr
Elems(arr) == {arr[i] : i \in 1..Len(arr)}

\* all sequences over S of length at most n
SeqUpTo(S, n) == UNION {[1..k -> S] : k \in 0..n}

\* the value undefined, and null
Undefined == [kind |-> "undefined"]
Null == [kind |-> "null"]

\* the empty string
EmptyString == [kind |-> "emptyString"]

\* JS truthiness of a modelled value
Truthy(v) == v # Undefined /\ v # Null /\ v # EmptyString

VARIABLES
  \* --- PostStats props
  userId,         \* the acting user (prop userId)
  \* --- PostStats, likes (src/components/shared/PostStats.tsx)
  postLikes,      \* post.likes: the user documents the post arrived with
  likes,          \* useState<string[]>(likesList)
  likeClicks,     \* number of handleLikePost calls so far
  likesHistory,   \* likes after 0, 1, 2, ... clicks (history)
  likeMutations,  \* likePost mutations issued and not yet settled
  remoteLikes,    \* the likes attribute of the remote post document
  applied,        \* the updates the remote has applied, by click number (history)

  \* --- PostStats, save
  currentUser,    \* data of useGetCurrentUser: Undefined or [save |-> records]
  isSaved,        \* useState(false), then set by the effect and the handler
  saveClicks,     \* number of handleSavePost calls so far
  isSavedAtSync,  \* isSaved when the current-user query last resolved (history)
  savesSinceSync, \* handleSavePost calls since then (history)
  saveMutations,  \* savePost / deleteSavedPost mutations not yet settled
  remoteSaves,    \* the save records of the remote saves collection
  nextSaveId,     \* the id ID.unique() gives the next save record
  saveTrace,      \* the save mutations issued and settled, in order (history)
  \* --- AuthProvider (src/context/AuthProvider.tsx) and the remote session
  cookieFallback, \* localStorage.getItem("cookieFallback")
  location,       \* the router's current path
  mounted,        \* the mount effect of AuthProvider has run
  redirected,     \* the mount effect has called navigate("/sign-in") (history)
  calls,          \* the SDK calls each invocation has issued, in order (history)
  user,           \* useState<IUser>(INITIAL_USER)
  isAuthenticated,\* useState(false)
  isLoading,      \* useState(false)
  pc,             \* where each checkAuthUser invocation stands
  ret,            \* what each settled invocation returned
  fetched,        \* what getCurrentUser gave each invocation (history)
  outcome,        \* how each invocation ended (history)
  sessionAtCall,  \* whether a remote session existed when it was called (history)
  settleOrder,    \* the invocations in the order they settled (history)
  signOutsPending,\* deleteSession calls of the side bar issued and not yet settled
  topSignOuts,    \* signOut mutations of the top bar issued and not yet settled
  remoteSession,  \* a session of this client exists at the remote
  remoteUserDocs, \* the user documents whose accountId is this account
  \* --- getInfinitePosts (lib/appwrite/backend) and the posts collection
  updatedAt,      \* $updatedAt of each document of the posts collection
  pageCalls,      \* the getInfinitePosts calls made: pageParam, queries, result
  \* --- the remote service facade (lib/appwrite/backend), one call at a time
  storage,        \* ids of the files of the storage bucket
  posts,          \* the documents of the posts collection: id and imageId
  nextId,         \* the id ID.unique() gives next
  facadeCalls,    \* number of facade calls made
  lastCall,       \* the last facade call: op, args, ret, raised, state before
  remoteLog       \* the SDK calls the last facade call made, with their outcomes

likeVars == <<postLikes, likes, likeClicks, likesHistory,
              likeMutations, remoteLikes, applied>>
saveVars == <<currentUser, isSaved, saveClicks, isSavedAtSync, savesSinceSync,
              saveMutations, remoteSaves, nextSaveId, saveTrace>>

authVars == <<cookieFallback, location, mounted, redirected, calls, user, isAuthenticated, isLoading,
              pc, ret, fetched, outcome, sessionAtCall, settleOrder,
              signOutsPending, topSignOuts, remoteSession, remoteUserDocs>>

pageVars == <<updatedAt, pageCalls>>

facadeVars == <<storage, posts, nextId, facadeCalls, lastCall, remoteLog>>

vars == <<userId, likeVars, saveVars, authVars, pageVars, facadeVars>>

\* AuthProvider.tsx:8-15
INITIAL_USER ==
  [id |-> "", name |-> "", username |-> "", email |-> "", imageUrl |-> "", bio |-> ""]

\* the components at rest, for the specifications of the others
LikesIdle ==
  /\ postLikes = <<>> /\ likes = <<>> /\ likeClicks = 0
  /\ likesHistory = <<>> /\ likeMutations = {} /\ remoteLikes = <<>>
  /\ applied = <<>>
SaveIdle ==
  /\ currentUser = Undefined /\ isSaved = FALSE /\ saveClicks = 0
  /\ isSavedAtSync = FALSE /\ savesSinceSync = 0 /\ saveMutations = {}
  /\ remoteSaves = {} /\ nextSaveId = 0 /\ saveTrace = <<>>

AuthIdle ==
  /\ cookieFallback = "null" /\ location = "/" /\ mounted = FALSE
  /\ redirected = FALSE /\ calls = <<>>
  /\ user = INITIAL_USER /\ isAuthenticated = FALSE /\ isLoading = FALSE
  /\ pc = <<>> /\ ret = <<>> /\ fetched = <<>> /\ outcome = <<>>
  /\ sessionAtCall = <<>> /\ settleOrder = <<>>
  /\ signOutsPending = 0 /\ topSignOuts = 0
  /\ remoteSession = FALSE /\ remoteUserDocs = <<>>
PageIdle ==
  /\ updatedAt = <<>> /\ pageCalls = <<>>
FacadeIdle ==
  /\ storage = {} /\ posts = {} /\ nextId = 0 /\ facadeCalls = 0
  /\ lastCall = Undefined /\ remoteLog = <<>>

\* ================================================= PostStats: likes
\* PostStats.tsx:26
likesList == MapId(postLikes)

\* a variant that removes one occurrence by index instead of filtering
ToggleLikeSplice(likesArray, uid) ==
  IF Includes(likesArray, uid)
  THEN LET k == CHOOSE i \in 1..Len(likesArray) : likesArray[i] = uid
       IN  SubSeq(likesArray, 1, k - 1) \o SubSeq(likesArray, k + 1, Len(likesArray))
  ELSE Append(likesArray, uid)

\* a variant that adds the id at the front of the array (unshift)
ToggleLikeUnshift(likesArray, uid) ==
  IF Includes(likesArray, uid)
  THEN FilterOut(likesArray, uid)
  ELSE <<uid>> \o likesArray

\* a variant that pushes without the includes() test
ToggleLikeAlwaysPush(likesArray, uid) ==
  Append(likesArray, uid)

\* PostStats.tsx:60-69: the new likesArray computed by handleLikePost
ToggleLike(likesArray, uid) ==
  IF Includes(likesArray, uid)
  THEN FilterOut(likesArray, uid)
  ELSE Append(likesArray, uid)

InitLikes ==
  /\ postLikes \in SeqUpTo([id : Users], MaxLikes)
  /\ userId \in Users
  /\ likes = likesList
  /\ likeClicks = 0
  /\ likesHistory = <<likesList>>
  /\ likeMutations = {}
  /\ remoteLikes = likesList
  /\ applied = <<>>
  /\ SaveIdle
  /\ AuthIdle
  /\ PageIdle
  /\ FacadeIdle

\* PostStats.tsx:51-76.  React flushes the state update of a click before the
\* next click is dispatched, so each call reads the likes the previous one set.
handleLikePost ==
  /\ likeClicks < MaxClicks
  /\ LET likesArray == ToggleLike(likes, userId) IN
       /\ likes' = likesArray
       /\ likesHistory' = Append(likesHistory, likesArray)
       /\ likeMutations' = likeMutations \cup
            {[seq |-> likeClicks + 1, postId |-> "p1", likesArray |-> likesArray]}
  /\ likeClicks' = likeClicks + 1
  /\ UNCHANGED <<userId, postLikes, remoteLikes, applied, saveVars, authVars, pageVars, facadeVars>>

\* a variant in which the remote drops an update older than one it has applied
likePostResolvesNewestWins ==
  \E m \in likeMutations :
    /\ remoteLikes' = IF \E k \in 1..Len(applied) : applied[k] > m.seq
                      THEN remoteLikes ELSE m.likesArray
    /\ applied' = Append(applied, m.seq)
    /\ likeMutations' = likeMutations \ {m}
    /\ UNCHANGED <<userId, postLikes, likes, likeClicks, likesHistory, saveVars, authVars, pageVars, facadeVars>>

\* backend likePost (part_000:492-509): updateDocument resolves; the mutation's
\* result is not read by PostStats.
likePostResolves ==
  \E m \in likeMutations :
    /\ remoteLikes' = m.likesArray
    /\ applied' = Append(applied, m.seq)
    /\ likeMutations' = likeMutations \ {m}
    /\ UNCHANGED <<userId, postLikes, likes, likeClicks, likesHistory, saveVars, authVars, pageVars, facadeVars>>

\* a variant that puts the local likes back to the remote ones on a failure
likePostRejectsRollsBack ==
  \E m \in likeMutations :
    /\ likeMutations' = likeMutations \ {m}
    /\ likes' = remoteLikes
    /\ UNCHANGED <<userId, postLikes, likeClicks, likesHistory, remoteLikes,
                   applied, saveVars, authVars, pageVars, facadeVars>>

\* backend likePost: updateDocument rejects; caught, logged, undefined.
likePostRejects ==
  \E m \in likeMutations :
    /\ likeMutations' = likeMutations \ {m}
    /\ UNCHANGED <<userId, postLikes, likes, likeClicks, likesHistory, remoteLikes,
                   applied, saveVars, authVars, pageVars, facadeVars>>

NextLikes ==
  \/ handleLikePost
  \/ likePostResolves
  \/ likePostRejects

\* ================================================= PostStats: save
\* the post PostStats shows, and another post of the feed
ThisPost == "p1"
OtherPost == "p2"

\* the save records the remote gives for the current user, oldest first
RECURSIVE SortedById(_)
SortedById(S) ==
  IF S = {} THEN <<>>
  ELSE LET r == CHOOSE x \in S : \A y \in S : x.id <= y.id
       IN  <<r>> \o SortedById(S \ {r})

\* the current-user document as the query returns it: its save relationship
\* holds one record per save document, each embedding its post
CurrentUserDocument(saves) ==
  [save |-> [i \in 1..Len(SortedById(saves)) |->
               [id |-> SortedById(saves)[i].id,
                post |-> [id |-> SortedById(saves)[i].post]]]]

\* PostStats.tsx:39-42: currentUser?.save.find(record => record.post.$id === post.$id)
savedPostRecordOf(cu) ==
  IF cu = Undefined THEN Undefined
  ELSE LET found == SelectSeq(cu.save, LAMBDA record : record.post.id = ThisPost)
       IN  IF found = <<>> THEN Undefined ELSE Head(found)

savedPostRecord == savedPostRecordOf(currentUser)

InitSave ==
  /\ userId \in Users
  /\ remoteSaves \in SUBSET {[id |-> 1, user |-> userId, post |-> ThisPost],
                             [id |-> 2, user |-> userId, post |-> OtherPost],
                             [id |-> 3, user |-> userId, post |-> ThisPost]}
  /\ nextSaveId = 4
  /\ currentUser \in {Undefined, CurrentUserDocument(remoteSaves)}
  \* PostStats.tsx:29 and the first run of the effect at 45-48
  /\ isSaved = Truthy(savedPostRecord)
  /\ saveClicks = 0
  /\ isSavedAtSync = isSaved
  /\ savesSinceSync = 0
  /\ saveMutations = {}
  /\ saveTrace = <<>>
  /\ LikesIdle
  /\ AuthIdle
  /\ PageIdle
  /\ FacadeIdle

\* a variant without the return after deleteSavePost
handleSavePostFallsThrough ==
  /\ saveClicks < MaxClicks
  /\ IF Truthy(savedPostRecord)
     THEN /\ isSaved' = TRUE
          /\ saveMutations' = saveMutations \cup
               {[seq |-> saveClicks + 1, op |-> "deleteSavedPost",
                 savedRecordId |-> savedPostRecord.id],
                [seq |-> saveClicks + 1, op |-> "savePost",
                 userId |-> userId, postId |-> ThisPost]}
          /\ saveTrace' = saveTrace \o
               <<[seq |-> saveClicks + 1, op |-> "deleteSavedPost", ev |-> "issued"],
                 [seq |-> saveClicks + 1, op |-> "savePost", ev |-> "issued"]>>
     ELSE /\ saveMutations' = saveMutations \cup
               {[seq |-> saveClicks + 1, op |-> "savePost",
                 userId |-> userId, postId |-> ThisPost]}
          /\ saveTrace' = Append(saveTrace,
               [seq |-> saveClicks + 1, op |-> "savePost", ev |-> "issued"])
          /\ isSaved' = TRUE
  /\ saveClicks' = saveClicks + 1
  /\ savesSinceSync' = savesSinceSync + 1
  /\ UNCHANGED <<userId, currentUser, isSavedAtSync, remoteSaves, nextSaveId, likeVars, authVars, pageVars, facadeVars>>

\* PostStats.tsx:79-95
handleSavePost ==
  /\ saveClicks < MaxClicks
  /\ IF Truthy(savedPostRecord)
     THEN /\ isSaved' = FALSE
          /\ saveMutations' = saveMutations \cup
               {[seq |-> saveClicks + 1, op |-> "deleteSavedPost",
                 savedRecordId |-> savedPostRecord.id]}
          /\ saveTrace' = Append(saveTrace,
               [seq |-> saveClicks + 1, op |-> "deleteSavedPost", ev |-> "issued"])
     ELSE /\ saveMutations' = saveMutations \cup
               {[seq |-> saveClicks + 1, op |-> "savePost",
                 userId |-> userId, postId |-> ThisPost]}
          /\ saveTrace' = Append(saveTrace,
               [seq |-> saveClicks + 1, op |-> "savePost", ev |-> "issued"])
          /\ isSaved' = TRUE
  /\ saveClicks' = saveClicks + 1
  /\ savesSinceSync' = savesSinceSync + 1
  /\ UNCHANGED <<userId, currentUser, isSavedAtSync, remoteSaves, nextSaveId, likeVars, authVars, pageVars, facadeVars>>

\* a variant in which the remote keeps one record per (user, post)
savePostResolvesUniquePair ==
  \E m \in saveMutations :
    /\ m.op = "savePost"
    /\ remoteSaves' =
         IF \E r \in remoteSaves : r.user = m.userId /\ r.post = m.postId
         THEN remoteSaves
         ELSE remoteSaves \cup {[id |-> nextSaveId, user |-> m.userId, post |-> m.postId]}
    /\ nextSaveId' = nextSaveId + 1
    /\ saveMutations' = saveMutations \ {m}
    /\ saveTrace' = Append(saveTrace, [seq |-> m.seq, op |-> m.op, ev |-> "resolved"])
    /\ UNCHANGED <<userId, currentUser, isSaved, saveClicks, isSavedAtSync,
                   savesSinceSync, likeVars, authVars, pageVars, facadeVars>>

\* backend savePost (part_000:521-539): createDocument resolves
savePostResolves ==
  \E m \in saveMutations :
    /\ m.op = "savePost"
    /\ remoteSaves' = remoteSaves \cup
         {[id |-> nextSaveId, user |-> m.userId, post |-> m.postId]}
    /\ nextSaveId' = nextSaveId + 1
    /\ saveMutations' = saveMutations \ {m}
    /\ saveTrace' = Append(saveTrace, [seq |-> m.seq, op |-> m.op, ev |-> "resolved"])
    /\ UNCHANGED <<userId, currentUser, isSaved, saveClicks, isSavedAtSync,
                   savesSinceSync, likeVars, authVars, pageVars, facadeVars>>

\* backend deleteSavedPost (part_000:550-564): deleteDocument resolves
deleteSavedPostResolves ==
  \E m \in saveMutations :
    /\ m.op = "deleteSavedPost"
    /\ \E r \in remoteSaves : r.id = m.savedRecordId
    /\ remoteSaves' = {r \in remoteSaves : r.id # m.savedRecordId}
    /\ saveMutations' = saveMutations \ {m}
    /\ saveTrace' = Append(saveTrace, [seq |-> m.seq, op |-> m.op, ev |-> "resolved"])
    /\ UNCHANGED <<userId, currentUser, isSaved, saveClicks, isSavedAtSync,
                   savesSinceSync, nextSaveId, likeVars, authVars, pageVars, facadeVars>>

\* savePost or deleteSavedPost: the remote call rejects (also a delete of a
\* record that is gone); caught, logged, undefined
saveMutationRejects ==
  \E m \in saveMutations :
    /\ saveMutations' = saveMutations \ {m}
    /\ saveTrace' = Append(saveTrace, [seq |-> m.seq, op |-> m.op, ev |-> "rejected"])
    /\ UNCHANGED <<userId, currentUser, isSaved, saveClicks, isSavedAtSync,
                   savesSinceSync, remoteSaves, nextSaveId, likeVars, authVars, pageVars, facadeVars>>

\* PostStats.tsx:34-48: the current-user query resolves with the remote's
\* records; when its data changed the effect sets isSaved from the new record
currentUserResolves ==
  /\ currentUser' = CurrentUserDocument(remoteSaves)
  /\ isSaved' = IF currentUser' # currentUser
                THEN Truthy(savedPostRecordOf(currentUser'))
                ELSE isSaved
  /\ isSavedAtSync' = isSaved'
  /\ savesSinceSync' = 0
  /\ UNCHANGED <<userId, saveClicks, saveMutations, remoteSaves, nextSaveId, saveTrace, likeVars, authVars, pageVars, facadeVars>>

NextSave ==
  \/ handleSavePost
  \/ savePostResolves
  \/ deleteSavedPostResolves
  \/ saveMutationRejects
  \/ currentUserResolves

SaveSpec == InitSave /\ [][NextSave]_vars

\* ================================================= AuthProvider
\* Most checkAuthUser invocations of one page load: the first is the mount
\* effect's, the others are started by components through the context.
MaxChecks == 2
\* Most sign-outs (of the side bar and of the top bar) in flight at a time.
MaxSignOuts == 1

Invocations == 1..MaxChecks

\* user documents of the users collection
UserDocuments ==
  {[id |-> "d1", accountId |-> "a1", name |-> "n1", username |-> "un1",
    email |-> "e1", imageUrl |-> "i1", bio |-> "b1"],
   [id |-> "d2", accountId |-> "a1", name |-> "n2", username |-> "un2",
    email |-> "e2", imageUrl |-> "i2", bio |-> "b2"]}

\* a variant that forgets the bio
UserFromDocumentNoBio(doc) ==
  [id |-> doc.id, name |-> doc.name,
   username |-> doc.username, email |-> doc.email,
   imageUrl |-> doc.imageUrl, bio |-> ""]

\* AuthProvider.tsx:52-59: the object given to setUser
UserFromDocument(doc) ==
  [id |-> doc.id, name |-> doc.name,
   username |-> doc.username, email |-> doc.email,
   imageUrl |-> doc.imageUrl, bio |-> doc.bio]

\* App.tsx:26-29: the routes under AuthLayout
PublicRoutes == {"/sign-in", "/sign-up"}

\* App.tsx:31-41: the routes under RootLayout (the index route, for the nine)
PrivateRoutes == {"/"}

\* AuthLayout.tsx:7: const isAuthenticated = false
AuthLayoutIsAuthenticated == FALSE

\* AuthLayout.tsx:8-26: <Navigate to="/" /> when its isAuthenticated is true,
\* the form (Outlet) otherwise; the path the router ends at
AuthLayout(path) == IF AuthLayoutIsAuthenticated THEN "/" ELSE path

\* RootLayout.tsx:8-19: the bars and the page (Outlet), without a condition
RootLayout(path) == path

\* App.tsx:24-42: the layout route that matches the path
App(path) == IF path \in PublicRoutes THEN AuthLayout(path) ELSE RootLayout(path)

\* backend getCurrentUser (part_000:131-151) once listDocuments has resolved
\* with `documents`: (await doc).documents[0]
FirstDocument(documents) ==
  IF Len(documents) = 0 THEN Undefined ELSE documents[1]

InitAuth ==
  /\ cookieFallback \in {"null", "[]", "a_session"}
  /\ location \in {"/", "/sign-in"}
  /\ mounted = FALSE
  /\ redirected = FALSE
  /\ calls = [i \in Invocations |-> <<>>]
  /\ user = INITIAL_USER
  /\ isAuthenticated = FALSE
  /\ isLoading = FALSE
  /\ pc = [i \in Invocations |-> "idle"]
  /\ ret = [i \in Invocations |-> FALSE]
  /\ fetched = [i \in Invocations |-> Undefined]
  /\ outcome = [i \in Invocations |-> "pending"]
  /\ sessionAtCall = [i \in Invocations |-> FALSE]
  /\ settleOrder = <<>>
  /\ signOutsPending = 0
  /\ topSignOuts = 0
  /\ remoteSession \in BOOLEAN
  /\ remoteUserDocs \in {<<>>} \cup {<<d>> : d \in UserDocuments}
  /\ userId = "u1"
  /\ LikesIdle
  /\ SaveIdle
  /\ PageIdle
  /\ FacadeIdle

\* AuthProvider.tsx:47-50: setIsLoading(true), then getCurrentUser() calls
\* getAccount(), which issues account.get()
checkAuthUserBegins(i) ==
  /\ pc[i] = "idle"
  /\ isLoading' = TRUE
  /\ pc' = [pc EXCEPT ![i] = "account.get"]
  /\ calls' = [calls EXCEPT ![i] = Append(@, "account.get")]
  /\ sessionAtCall' = [sessionAtCall EXCEPT ![i] = remoteSession]

\* a variant that resets the session state when the check fails
checkAuthUserReturnsFalseResets(i, doc, how) ==
  /\ fetched' = [fetched EXCEPT ![i] = doc]
  /\ outcome' = [outcome EXCEPT ![i] = how]
  /\ ret' = [ret EXCEPT ![i] = FALSE]
  /\ pc' = [pc EXCEPT ![i] = "done"]
  /\ settleOrder' = Append(settleOrder, i)
  /\ isLoading' = FALSE
  /\ user' = INITIAL_USER
  /\ isAuthenticated' = FALSE

\* a variant without the finally block
checkAuthUserReturnsFalseKeepsLoading(i, doc, how) ==
  /\ fetched' = [fetched EXCEPT ![i] = doc]
  /\ outcome' = [outcome EXCEPT ![i] = how]
  /\ ret' = [ret EXCEPT ![i] = FALSE]
  /\ pc' = [pc EXCEPT ![i] = "done"]
  /\ settleOrder' = Append(settleOrder, i)
  /\ UNCHANGED <<user, isAuthenticated, isLoading>>

\* AuthProvider.tsx:51, 63-69: currentUser (doc) is falsy; return false; finally
\* setIsLoading(false)
checkAuthUserReturnsFalse(i, doc, how) ==
  /\ fetched' = [fetched EXCEPT ![i] = doc]
  /\ outcome' = [outcome EXCEPT ![i] = how]
  /\ ret' = [ret EXCEPT ![i] = FALSE]
  /\ pc' = [pc EXCEPT ![i] = "done"]
  /\ settleOrder' = Append(settleOrder, i)
  /\ isLoading' = FALSE
  /\ UNCHANGED <<user, isAuthenticated>>

\* AuthProvider.tsx:51-61, 67-69: setUser, setIsAuthenticated(true), return
\* true; finally setIsLoading(false)
checkAuthUserReturnsTrue(i, doc) ==
  /\ fetched' = [fetched EXCEPT ![i] = doc]
  /\ outcome' = [outcome EXCEPT ![i] = "ok"]
  /\ ret' = [ret EXCEPT ![i] = TRUE]
  /\ pc' = [pc EXCEPT ![i] = "done"]
  /\ settleOrder' = Append(settleOrder, i)
  /\ isLoading' = FALSE
  /\ user' = UserFromDocument(doc)
  /\ isAuthenticated' = TRUE

\* a variant that redirects when there is no remote session
AuthProviderMountsRedirectsWithoutSession ==
  /\ ~mounted
  /\ mounted' = TRUE
  /\ redirected' = ~remoteSession
  /\ location' = IF redirected' THEN App("/sign-in") ELSE location
  /\ checkAuthUserBegins(1)
  /\ UNCHANGED <<cookieFallback, topSignOuts, user, isAuthenticated, ret, fetched, outcome,
                 settleOrder, signOutsPending, remoteSession, remoteUserDocs,
                 userId, likeVars, saveVars, pageVars, facadeVars>>

\* a variant that returns after the redirect, without the check
AuthProviderMountsReturnsAfterRedirect ==
  /\ ~mounted
  /\ mounted' = TRUE
  /\ redirected' = (cookieFallback = "[]" \/ cookieFallback = "null")
  /\ location' = IF redirected' THEN App("/sign-in") ELSE location
  /\ IF redirected'
     THEN UNCHANGED <<isLoading, pc, calls, sessionAtCall>>
     ELSE checkAuthUserBegins(1)
  /\ UNCHANGED <<cookieFallback, topSignOuts, user, isAuthenticated, ret, fetched, outcome,
                 settleOrder, signOutsPending, remoteSession, remoteUserDocs,
                 userId, likeVars, saveVars, pageVars, facadeVars>>

\* AuthProvider.tsx:73-85: the mount effect
AuthProviderMounts ==
  /\ ~mounted
  /\ mounted' = TRUE
  /\ redirected' = (cookieFallback = "[]" \/ cookieFallback = "null")
  /\ location' = IF redirected' THEN App("/sign-in") ELSE location
  /\ checkAuthUserBegins(1)
  /\ UNCHANGED <<cookieFallback, topSignOuts, user, isAuthenticated, ret, fetched, outcome,
                 settleOrder, signOutsPending, remoteSession, remoteUserDocs,
                 userId, likeVars, saveVars, pageVars, facadeVars>>

\* AuthProvider.tsx:87-94: a component calls checkAuthUser through the context;
\* the invocations are numbered in the order they are started
checkAuthUser(i) ==
  /\ mounted
  /\ i > 1
  /\ pc[i - 1] # "idle"
  /\ checkAuthUserBegins(i)
  /\ UNCHANGED <<cookieFallback, topSignOuts, redirected, location, mounted, user, isAuthenticated, ret,
                 fetched, outcome, settleOrder, signOutsPending, remoteSession,
                 remoteUserDocs, userId, likeVars, saveVars, pageVars, facadeVars>>

\* backend getAccount (part_000:111-119): account.get() resolves with the
\* account; getCurrentUser goes on to issue listDocuments (134-143)
accountGetResolves(i) ==
  /\ pc[i] = "account.get"
  /\ remoteSession
  /\ pc' = [pc EXCEPT ![i] = "listDocuments"]
  /\ calls' = [calls EXCEPT ![i] = Append(@, "listDocuments")]
  /\ UNCHANGED <<cookieFallback, topSignOuts, redirected, location, mounted, user, isAuthenticated,
                 isLoading, ret, fetched, outcome, sessionAtCall, settleOrder,
                 signOutsPending, remoteSession, remoteUserDocs,
                 userId, likeVars, saveVars, pageVars, facadeVars>>

\* a variant that fetches the account again when the fetch fails
accountGetRejectsRetries(i) ==
  /\ pc[i] = "account.get"
  /\ Len(calls[i]) < 3
  /\ calls' = [calls EXCEPT ![i] = Append(@, "account.get")]
  /\ UNCHANGED <<cookieFallback, topSignOuts, redirected, location, mounted, user,
                 isAuthenticated, isLoading, pc, ret, fetched, outcome,
                 sessionAtCall, settleOrder, signOutsPending, remoteSession,
                 remoteUserDocs, userId, likeVars, saveVars, pageVars, facadeVars>>

\* backend getAccount (part_000:120-122), getCurrentUser (135-136, 147-150):
\* account.get() rejects (no session, or the network), getAccount returns
\* undefined, getCurrentUser throws, catches and returns null
accountGetRejects(i) ==
  /\ pc[i] = "account.get"
  /\ checkAuthUserReturnsFalse(i, Null,
       IF remoteSession THEN "account fetch error" ELSE "no remote session")
  /\ UNCHANGED <<cookieFallback, topSignOuts, redirected, calls, location, mounted, sessionAtCall,
                 signOutsPending, remoteSession, remoteUserDocs,
                 userId, likeVars, saveVars, pageVars, facadeVars>>

\* backend getCurrentUser (part_000:139-146): listDocuments resolves
listDocumentsResolves(i) ==
  /\ pc[i] = "listDocuments"
  /\ IF Truthy(FirstDocument(remoteUserDocs))
     THEN checkAuthUserReturnsTrue(i, FirstDocument(remoteUserDocs))
     ELSE checkAuthUserReturnsFalse(i, FirstDocument(remoteUserDocs),
                                    "no matching user document")
  /\ UNCHANGED <<cookieFallback, topSignOuts, redirected, calls, location, mounted, sessionAtCall,
                 signOutsPending, remoteSession, remoteUserDocs,
                 userId, likeVars, saveVars, pageVars, facadeVars>>

\* backend getCurrentUser (part_000:146-150): listDocuments rejects, caught,
\* null
listDocumentsRejects(i) ==
  /\ pc[i] = "listDocuments"
  /\ checkAuthUserReturnsFalse(i, Null, "user-document fetch error")
  /\ UNCHANGED <<cookieFallback, topSignOuts, redirected, calls, location, mounted, sessionAtCall,
                 signOutsPending, remoteSession, remoteUserDocs,
                 userId, likeVars, saveVars, pageVars, facadeVars>>

\* AsideNavBar.tsx:21-29 (the bar is part of RootLayout, which renders on
\* every private route)
handleSignOut ==
  /\ mounted
  /\ location \notin PublicRoutes
  /\ signOutsPending + topSignOuts < MaxSignOuts
  /\ signOutsPending' = signOutsPending + 1
  /\ isAuthenticated' = FALSE
  /\ user' = INITIAL_USER
  /\ location' = App("/sign-in")
  /\ UNCHANGED <<cookieFallback, topSignOuts, redirected, calls, mounted, isLoading, pc, ret, fetched, outcome,
                 sessionAtCall, settleOrder, remoteSession, remoteUserDocs,
                 userId, likeVars, saveVars, pageVars, facadeVars>>

\* backend signOutAccount (part_000:159-167): deleteSession("current") resolves
deleteSessionResolves ==
  /\ signOutsPending > 0
  /\ remoteSession
  /\ remoteSession' = FALSE
  /\ signOutsPending' = signOutsPending - 1
  /\ UNCHANGED <<cookieFallback, topSignOuts, redirected, calls, location, mounted, user, isAuthenticated,
                 isLoading, pc, ret, fetched, outcome, sessionAtCall, settleOrder,
                 remoteUserDocs, userId, likeVars, saveVars, pageVars, facadeVars>>

\* backend signOutAccount: deleteSession rejects (no session, or the network)
deleteSessionRejects ==
  /\ signOutsPending > 0
  /\ signOutsPending' = signOutsPending - 1
  /\ UNCHANGED <<cookieFallback, topSignOuts, redirected, calls, location, mounted, user, isAuthenticated,
                 isLoading, pc, ret, fetched, outcome, sessionAtCall, settleOrder,
                 remoteSession, remoteUserDocs, userId, likeVars, saveVars, pageVars, facadeVars>>

\* BottomNavBar.tsx:66-72 (TopNavBar, part of RootLayout): onClick signOut()
TopNavBarSignOut ==
  /\ mounted
  /\ location \in PrivateRoutes
  /\ signOutsPending + topSignOuts < MaxSignOuts
  /\ topSignOuts' = topSignOuts + 1
  /\ UNCHANGED <<cookieFallback, location, mounted, redirected, calls, user,
                 isAuthenticated, isLoading, pc, ret, fetched, outcome,
                 sessionAtCall, settleOrder, signOutsPending, remoteSession,
                 remoteUserDocs, userId, likeVars, saveVars, pageVars, facadeVars>>

\* navigate(0): the page is loaded again at the same location; the React state
\* is the initial one and the requests of the old page are dropped
Reload ==
  /\ mounted' = FALSE
  /\ redirected' = FALSE
  /\ user' = INITIAL_USER
  /\ isAuthenticated' = FALSE
  /\ isLoading' = FALSE
  /\ pc' = [i \in Invocations |-> "idle"]
  /\ ret' = [i \in Invocations |-> FALSE]
  /\ fetched' = [i \in Invocations |-> Undefined]
  /\ outcome' = [i \in Invocations |-> "pending"]
  /\ calls' = [i \in Invocations |-> <<>>]
  /\ sessionAtCall' = [i \in Invocations |-> FALSE]
  /\ settleOrder' = <<>>
  /\ signOutsPending' = 0
  /\ topSignOuts' = 0
  /\ UNCHANGED <<cookieFallback, location>>

\* BottomNavBar.tsx:51-56: deleteSession resolves, the mutation's isSuccess
\* becomes true and the effect of TopNavBar, if it is still rendered, reloads
TopNavBarSignOutResolves ==
  /\ topSignOuts > 0
  /\ remoteSession
  /\ remoteSession' = FALSE
  /\ IF mounted /\ location \in PrivateRoutes
     THEN Reload
     ELSE /\ topSignOuts' = topSignOuts - 1
          /\ UNCHANGED <<cookieFallback, location, mounted, redirected, calls,
                         user, isAuthenticated, isLoading, pc, ret, fetched,
                         outcome, sessionAtCall, settleOrder, signOutsPending>>
  /\ UNCHANGED <<remoteUserDocs, userId, likeVars, saveVars, pageVars, facadeVars>>

\* deleteSession rejects (no session, or the network): isSuccess stays false
TopNavBarSignOutRejects ==
  /\ topSignOuts > 0
  /\ topSignOuts' = topSignOuts - 1
  /\ UNCHANGED <<cookieFallback, location, mounted, redirected, calls, user,
                 isAuthenticated, isLoading, pc, ret, fetched, outcome,
                 sessionAtCall, settleOrder, signOutsPending, remoteSession,
                 remoteUserDocs, userId, likeVars, saveVars, pageVars, facadeVars>>

\* the user follows a link of the page shown, or goes back in the history
navigate(path) ==
  /\ mounted
  /\ location # path
  /\ location' = App(path)
  /\ UNCHANGED <<cookieFallback, topSignOuts, redirected, calls, mounted, user, isAuthenticated, isLoading, pc,
                 ret, fetched, outcome, sessionAtCall, settleOrder,
                 signOutsPending, remoteSession, remoteUserDocs,
                 userId, likeVars, saveVars, pageVars, facadeVars>>

NextAuth ==
  \/ AuthProviderMounts
  \/ \E i \in Invocations : checkAuthUser(i)
  \/ \E i \in Invocations : accountGetResolves(i)
  \/ \E i \in Invocations : accountGetRejects(i)
  \/ \E i \in Invocations : listDocumentsResolves(i)
  \/ \E i \in Invocations : listDocumentsRejects(i)
  \/ handleSignOut
  \/ deleteSessionResolves
  \/ deleteSessionRejects
  \/ TopNavBarSignOut
  \/ TopNavBarSignOutResolves
  \/ TopNavBarSignOutRejects
  \/ \E path \in PublicRoutes \cup PrivateRoutes : navigate(path)

AuthSpec == InitAuth /\ [][NextAuth]_vars

\* part_000:113, 139: every awaited SDK promise settles, the request ending
\* with a response or with a network error
AuthFairness ==
  \A i \in Invocations :
    /\ WF_vars(accountGetResolves(i) \/ accountGetRejects(i))
    /\ WF_vars(listDocumentsResolves(i) \/ listDocumentsRejects(i))

AuthLiveSpec == AuthSpec /\ AuthFairness

\* ================================================= getInfinitePosts
\* Most documents of the posts collection.
MaxDocs == 20
\* Most getInfinitePosts calls of one feed.
MaxPageCalls == 3
\* Query.limit(9)
PageSize == 9

\* a document id (a string; String.prototype.toString gives the string itself)
DocId(d) == [kind |-> "string", value |-> d]

Min(a, b) == IF a < b THEN a ELSE b

\* the remote's answer to Query.orderDesc("$updatedAt"): the documents, most
\* recently updated first
RECURSIVE OrderDesc(_, _)
OrderDesc(docs, at) ==
  IF docs = {} THEN <<>>
  ELSE LET d == CHOOSE x \in docs : \A y \in docs : at[y] <= at[x]
       IN  <<d>> \o OrderDesc(docs \ {d}, at)

\* the remote's answer to Query.cursorAfter(id): what follows the document
\* with that id
CursorAfter(ordered, id) ==
  LET k == CHOOSE i \in 1..Len(ordered) : DocId(ordered[i]) = id
  IN  SubSeq(ordered, k + 1, Len(ordered))

HasQuery(queries, method) == \E i \in 1..Len(queries) : queries[i].method = method
QueryOf(queries, method) ==
  queries[CHOOSE i \in 1..Len(queries) : queries[i].method = method]

\* databases.listDocuments(postsCollectionId, queries) when it resolves: the
\* remote orders, cuts at the cursor and limits, in that order
ListDocuments(at, queries) ==
  LET ordered == IF HasQuery(queries, "orderDesc")
                 THEN OrderDesc(DOMAIN at, at)
                 ELSE [i \in 1..Len(at) |-> i]
      after   == IF HasQuery(queries, "cursorAfter")
                 THEN CursorAfter(ordered, QueryOf(queries, "cursorAfter").value)
                 ELSE ordered
      limited == IF HasQuery(queries, "limit")
                 THEN SubSeq(after, 1, Min(QueryOf(queries, "limit").value, Len(after)))
                 ELSE after
  IN  [documents |-> limited]

\* a variant that never pushes the cursor
getInfinitePostsQueriesNoCursor(pageParam) ==
  <<[method |-> "orderDesc", attribute |-> "$updatedAt"],
    [method |-> "limit", value |-> PageSize]>>

\* part_000:329-333: the queries getInfinitePosts sends
getInfinitePostsQueries(pageParam) ==
  <<[method |-> "orderDesc", attribute |-> "$updatedAt"],
    [method |-> "limit", value |-> PageSize]>>
  \o (IF Truthy(pageParam)
      THEN <<[method |-> "cursorAfter", value |-> pageParam]>>
      ELSE <<>>)

\* the infinite query's next page parameter: undefined for the first page,
\* then the id of the last document of the last page
NextPageParam ==
  IF pageCalls = <<>> THEN Undefined
  ELSE LET last == pageCalls[Len(pageCalls)].result.documents
       IN  DocId(last[Len(last)])

InitPage ==
  /\ \E n \in 0..MaxDocs : \E shift \in {0, 1, 4} : \E rev \in BOOLEAN :
       updatedAt = [d \in 1..n |->
                      IF rev THEN n - ((d + shift) % n) ELSE ((d + shift) % n) + 1]
  /\ pageCalls = <<>>
  /\ userId = "u1"
  /\ LikesIdle
  /\ SaveIdle
  /\ AuthIdle
  /\ FacadeIdle

\* the feed may ask for a page: the first time, or after a page that resolved
\* with at least one document
CanFetchPage ==
  /\ Len(pageCalls) < MaxPageCalls
  /\ pageCalls # <<>> =>
       /\ pageCalls[Len(pageCalls)].result # Undefined
       /\ pageCalls[Len(pageCalls)].result.documents # <<>>

\* part_000:328-344: listDocuments resolves and its result is returned
getInfinitePostsResolves ==
  /\ CanFetchPage
  /\ LET queries == getInfinitePostsQueries(NextPageParam) IN
       pageCalls' = Append(pageCalls,
         [pageParam |-> NextPageParam, queries |-> queries,
          result |-> ListDocuments(updatedAt, queries)])
  /\ UNCHANGED <<updatedAt, userId, likeVars, saveVars, authVars, facadeVars>>

\* part_000:345-347: listDocuments rejects; caught, logged, undefined
getInfinitePostsRejects ==
  /\ CanFetchPage
  /\ pageCalls' = Append(pageCalls,
       [pageParam |-> NextPageParam,
        queries |-> getInfinitePostsQueries(NextPageParam),
        result |-> Undefined])
  /\ UNCHANGED <<updatedAt, userId, likeVars, saveVars, authVars, facadeVars>>

NextPage ==
  \/ getInfinitePostsResolves
  \/ getInfinitePostsRejects

PageSpec == InitPage /\ [][NextPage]_vars

\* ================================================= remote service facade
\* Most facade calls of one run.
MaxFacadeCalls == 1

\* how an SDK call can end: it resolves, resolves with a falsy value (null),
\* or rejects (a 4xx, a 5xx, the network)
Outcomes == {"ok", "falsy", "reject"}

\* new Error(message), or the error an SDK call rejected with
Error(message) == [kind |-> "error", message |-> message]

\* the state a facade call threads through its SDK calls
FacadeState == [storage |-> storage, posts |-> posts, nextId |-> nextId, log |-> <<>>]

Logged(st, call, arg, o) ==
  [st EXCEPT !.log = Append(@, [call |-> call, arg |-> arg, outcome |-> o])]

\* an awaited SDK promise: rejected, or resolved with val (null when falsy)
Settled(o, val, st) ==
  [rejected |-> o = "reject", val |-> IF o = "ok" THEN val ELSE Null, st |-> st]

\* how an async facade function ends: return val, or a rejection the caller sees
Returns(val, st) == [ret |-> val, raised |-> FALSE, st |-> st]
Raises(err, st) == [ret |-> err, raised |-> TRUE, st |-> st]

\* an SDK call that changes nothing this model tracks
sdkCall(st, call, arg, o, val) == Settled(o, val, Logged(st, call, arg, o))

\* storage.createFile(storageId, ID.unique(), file)
storageCreateFile(st, o) ==
  IF o = "ok"
  THEN Settled(o, [kind |-> "file", id |-> DocId(st.nextId)],
               Logged([st EXCEPT !.storage = @ \cup {st.nextId}, !.nextId = @ + 1],
                      "storage.createFile", DocId(st.nextId), o))
  ELSE Settled(o, Null, Logged(st, "storage.createFile", Undefined, o))

\* storage.deleteFile(storageId, fileId): rejects when there is no such file;
\* what it resolves with is never read
storageDeleteFile(st, fileId, o) ==
  IF o # "reject" /\ fileId \in {DocId(f) : f \in st.storage}
  THEN Settled("ok", [kind |-> "empty"],
               Logged([st EXCEPT !.storage = @ \ {fileId.value}],
                      "storage.deleteFile", fileId, "ok"))
  ELSE Settled("reject", Null, Logged(st, "storage.deleteFile", fileId, "reject"))

\* databases.createDocument(databasesId, postsCollectionId, ID.unique(), data)
postsCreateDocument(st, imageId, o) ==
  IF o = "ok"
  THEN Settled(o, [kind |-> "document", id |-> DocId(st.nextId), imageId |-> imageId],
               Logged([st EXCEPT !.posts = @ \cup {[id |-> DocId(st.nextId),
                                                    imageId |-> imageId]},
                                 !.nextId = @ + 1],
                      "databases.createDocument", DocId(st.nextId), o))
  ELSE Settled(o, Null, Logged(st, "databases.createDocument", Undefined, o))

\* databases.updateDocument(databasesId, postsCollectionId, postId, data):
\* rejects when there is no such document
postsUpdateDocument(st, postId, imageId, o) ==
  IF o = "ok" /\ \E d \in st.posts : d.id = postId
  THEN Settled(o, [kind |-> "document", id |-> postId, imageId |-> imageId],
               Logged([st EXCEPT !.posts = {IF d.id = postId
                                            THEN [d EXCEPT !.imageId = imageId]
                                            ELSE d : d \in st.posts}],
                      "databases.updateDocument", postId, o))
  ELSE IF o = "falsy"
  THEN Settled(o, Null, Logged(st, "databases.updateDocument", postId, o))
  ELSE Settled("reject", Null, Logged(st, "databases.updateDocument", postId, "reject"))

\* databases.deleteDocument(databasesId, postsCollectionId, postId): rejects
\* when there is no such document
postsDeleteDocument(st, postId, o) ==
  IF o = "ok" /\ \E d \in st.posts : d.id = postId
  THEN Settled(o, [kind |-> "empty"],
               Logged([st EXCEPT !.posts = {d \in st.posts : d.id # postId}],
                      "databases.deleteDocument", postId, o))
  ELSE IF o = "falsy"
  THEN Settled(o, Null, Logged(st, "databases.deleteDocument", postId, o))
  ELSE Settled("reject", Null, Logged(st, "databases.deleteDocument", postId, "reject"))

\* try { x = await call; if (!x) throw ...; return x } catch { log }
checked(r, val) ==
  IF r.rejected \/ ~Truthy(r.val) THEN Returns(Undefined, r.st) ELSE Returns(val, r.st)

\* try { x = await call; return x } catch { log }
unchecked(r) ==
  IF r.rejected THEN Returns(Undefined, r.st) ELSE Returns(r.val, r.st)

\* ---- files
\* part_000:232-245
uploadFile(st, o) == unchecked(storageCreateFile(st, o["createFile"]))

\* part_000:254-275: storage.getFilePreview builds the URL; it is not awaited,
\* a falsy result throws inside the try, and a throw of the SDK is caught
getFilePreview(st, fileId, o) ==
  LET r == sdkCall(st, "storage.getFilePreview", fileId, o["getFilePreview"],
                   [kind |-> "url", fileId |-> fileId])
  IN  checked(r, r.val)

\* part_000:284-291
deleteFile(st, fileId, o) ==
  LET r == storageDeleteFile(st, fileId, o["deleteFile"])
  IN  IF r.rejected THEN Returns(Undefined, r.st)
      ELSE Returns([kind |-> "status", status |-> "ok"], r.st)

\* ---- createPost
\* part_000:199-222: the document write, its cleanup, the return and the catch
createPostDocument(st, uploadedFile, fileUrl, o) ==
  LET newPost == postsCreateDocument(st, uploadedFile.id, o["createDocument"])
  IN  IF newPost.rejected
      THEN Returns(Undefined, newPost.st)
      ELSE IF ~Truthy(newPost.val)
      THEN Returns(Undefined, deleteFile(newPost.st, uploadedFile.id, o).st)
      ELSE Returns(newPost.val, newPost.st)

\* a variant that throws without deleting the uploaded file
createPostPreviewNoCleanup(st, uploadedFile, o) ==
  LET fileUrl == getFilePreview(st, uploadedFile.id, o)
  IN  IF ~Truthy(fileUrl.ret)
      THEN Returns(Undefined, fileUrl.st)
      ELSE createPostDocument(fileUrl.st, uploadedFile, fileUrl.ret, o)

\* part_000:189-194: the preview URL and its cleanup
createPostPreview(st, uploadedFile, o) ==
  LET fileUrl == getFilePreview(st, uploadedFile.id, o)
  IN  IF ~Truthy(fileUrl.ret)
      THEN Returns(Undefined, deleteFile(fileUrl.st, uploadedFile.id, o).st)
      ELSE createPostDocument(fileUrl.st, uploadedFile, fileUrl.ret, o)

\* part_000:183-223
createPost(st, o) ==
  LET uploadedFile == uploadFile(st, o)
  IN  IF ~Truthy(uploadedFile.ret)
      THEN Returns(Undefined, uploadedFile.st)
      ELSE createPostPreview(uploadedFile.st, uploadedFile.ret, o)

\* ---- deletePost
\* a variant that deletes the image file first and the post document after it
deletePostBodyFileFirst(st, postId, imageId, o) ==
  LET deleted == deleteFile(st, imageId, o)
      statusCode == postsDeleteDocument(deleted.st, postId, o["deleteDocument"])
  IN  IF statusCode.rejected \/ ~Truthy(statusCode.val)
      THEN Returns(Undefined, statusCode.st)
      ELSE Returns([kind |-> "status", status |-> "Ok"], statusCode.st)

\* part_000:464-479: the body after the guard
deletePostBody(st, postId, imageId, o) ==
  LET statusCode == postsDeleteDocument(st, postId, o["deleteDocument"])
  IN  IF statusCode.rejected \/ ~Truthy(statusCode.val)
      THEN Returns(Undefined, statusCode.st)
      ELSE Returns([kind |-> "status", status |-> "Ok"],
                   deleteFile(statusCode.st, imageId, o).st)

\* a variant whose guard needs both ids missing
deletePostGuardAnd(st, postId, imageId, o) ==
  IF ~Truthy(postId) /\ ~Truthy(imageId)
  THEN Returns(Undefined, st)
  ELSE deletePostBody(st, postId, imageId, o)

\* part_000:462-480
deletePost(st, postId, imageId, o) ==
  IF ~Truthy(postId) \/ ~Truthy(imageId)
  THEN Returns(Undefined, st)
  ELSE deletePostBody(st, postId, imageId, o)


\* ---- auth
\* part_000:59-79: createDocument is returned without await, so the try does
\* not see its rejection
saveUserToDB(st, o) ==
  LET newUser == sdkCall(st, "databases.createDocument", Undefined,
                         o["createDocument"], [kind |-> "document", id |-> DocId(st.nextId)])
  IN  IF newUser.rejected
      THEN Raises(Error("rejected"), newUser.st)
      ELSE Returns(newUser.val, newUser.st)

\* part_000:17-45: the catch returns the error
signUpAccount(st, o) ==
  LET newAccount == sdkCall(st, "account.create", Undefined, o["account.create"],
                            [kind |-> "account", id |-> DocId(st.nextId)])
  IN  IF newAccount.rejected
      THEN Returns(Error("rejected"), newAccount.st)
      ELSE IF ~Truthy(newAccount.val)
      THEN Returns(Error("New Account missing create"), newAccount.st)
      ELSE Returns(saveUserToDB(newAccount.st, o).ret, saveUserToDB(newAccount.st, o).st)

\* part_000:90-103
signInAccount(st, o) ==
  unchecked(sdkCall(st, "account.createEmailPasswordSession", Undefined,
                    o["createEmailPasswordSession"], [kind |-> "session"]))

\* part_000:111-123
getAccount(st, o) ==
  unchecked(sdkCall(st, "account.get", Undefined, o["account.get"],
                    [kind |-> "account", id |-> DocId(1)]))

\* part_000:131-151
getCurrentUser(st, documents, o) ==
  LET currentAccount == getAccount(st, o)
  IN  IF ~Truthy(currentAccount.ret)
      THEN Returns(Null, currentAccount.st)
      ELSE LET currentUser_ == sdkCall(currentAccount.st, "databases.listDocuments",
                                       Undefined, o["listDocuments"],
                                       [documents |-> documents])
           IN  IF currentUser_.rejected \/ ~Truthy(currentUser_.val)
               THEN Returns(Null, currentUser_.st)
               ELSE Returns(FirstDocument(currentUser_.val.documents), currentUser_.st)

\* part_000:159-167: deleteSession is returned without await
signOutAccount(st, o) ==
  LET session == sdkCall(st, "account.deleteSession", Undefined,
                         o["deleteSession"], [kind |-> "empty"])
  IN  IF session.rejected
      THEN Raises(Error("rejected"), session.st)
      ELSE Returns(session.val, session.st)

\* ---- posts
\* part_000:302-316
searchPosts(st, o) ==
  LET r == sdkCall(st, "databases.listDocuments", Undefined, o["listDocuments"],
                   [documents |-> <<>>])
  IN  checked(r, r.val)

\* part_000:328-348
getInfinitePosts(st, pageParam, o) ==
  LET r == sdkCall(st, "databases.listDocuments", getInfinitePostsQueries(pageParam),
                   o["listDocuments"], [documents |-> <<>>])
  IN  checked(r, r.val)

\* a variant whose guard is inside the try
getPostByIdGuardCaught(st, postId, o) ==
  IF ~Truthy(postId)
  THEN Returns(Undefined, st)
  ELSE LET r == sdkCall(st, "databases.getDocument", postId, o["getDocument"],
                        [kind |-> "document", id |-> postId])
       IN  checked(r, r.val)

\* part_000:360-376: the guard throws before the try
getPostById(st, postId, o) ==
  IF ~Truthy(postId)
  THEN Raises(Error("Invalid post ID"), st)
  ELSE LET r == sdkCall(st, "databases.getDocument", postId, o["getDocument"],
                        [kind |-> "document", id |-> postId])
       IN  checked(r, r.val)

\* part_000:398-411 and 700-713: upload the new file and get its URL; ok is
\* false when the function has thrown
newImage(st, o) ==
  LET uploadedFile == uploadFile(st, o)
  IN  IF ~Truthy(uploadedFile.ret)
      THEN [ok |-> FALSE, imageId |-> Undefined, st |-> uploadedFile.st]
      ELSE LET fileUrl == getFilePreview(uploadedFile.st, uploadedFile.ret.id, o)
           IN  IF ~Truthy(fileUrl.ret)
               THEN [ok |-> FALSE, imageId |-> Undefined,
                     st |-> deleteFile(fileUrl.st, uploadedFile.ret.id, o).st]
               ELSE [ok |-> TRUE, imageId |-> uploadedFile.ret.id, st |-> fileUrl.st]

\* part_000:416-444: the document update, its cleanup and the old file
updatePostDocument(st, post, hasFileToUpdate, imageId, o) ==
  LET updatedPost == postsUpdateDocument(st, post.postId, imageId, o["updateDocument"])
  IN  IF updatedPost.rejected
      THEN Returns(Undefined, updatedPost.st)
      ELSE IF ~Truthy(updatedPost.val)
      THEN Returns(Undefined, IF hasFileToUpdate
                              THEN deleteFile(updatedPost.st, imageId, o).st
                              ELSE updatedPost.st)
      ELSE Returns(updatedPost.val, IF hasFileToUpdate
                                    THEN deleteFile(updatedPost.st, post.imageId, o).st
                                    ELSE updatedPost.st)

\* part_000:389-448
updatePost(st, post, o) ==
  IF post.hasFile
  THEN IF newImage(st, o).ok
       THEN updatePostDocument(newImage(st, o).st, post, TRUE, newImage(st, o).imageId, o)
       ELSE Returns(Undefined, newImage(st, o).st)
  ELSE updatePostDocument(st, post, FALSE, post.imageId, o)

\* part_000:492-509
likePost(st, o) ==
  LET r == sdkCall(st, "databases.updateDocument", Undefined, o["updateDocument"],
                   [kind |-> "document", id |-> DocId(1)])
  IN  checked(r, r.val)

\* part_000:521-539
savePost(st, o) ==
  LET r == sdkCall(st, "databases.createDocument", Undefined, o["createDocument"],
                   [kind |-> "document", id |-> DocId(st.nextId)])
  IN  checked(r, r.val)

\* part_000:550-564
deleteSavedPost(st, o) ==
  LET r == sdkCall(st, "databases.deleteDocument", Undefined, o["deleteDocument"],
                   [kind |-> "empty"])
  IN  checked(r, [kind |-> "status", status |-> "Ok"])

\* part_000:576-592
getUserPosts(st, uid, o) ==
  IF ~Truthy(uid)
  THEN Returns(Undefined, st)
  ELSE LET r == sdkCall(st, "databases.listDocuments", uid, o["listDocuments"],
                        [documents |-> <<>>])
       IN  checked(r, r.val)

\* part_000:602-619
getRecentPosts(st, o) ==
  LET r == sdkCall(st, "databases.listDocuments", Undefined, o["listDocuments"],
                   [documents |-> <<>>])
  IN  checked(r, r.val)

\* ---- users
\* part_000:634-654
getUsers(st, o) ==
  LET r == sdkCall(st, "databases.listDocuments", Undefined, o["listDocuments"],
                   [documents |-> <<>>])
  IN  checked(r, r.val)

\* part_000:666-679
getUserById(st, o) ==
  LET r == sdkCall(st, "databases.getDocument", Undefined, o["getDocument"],
                   [kind |-> "document", id |-> DocId(1)])
  IN  checked(r, r.val)

\* part_000:715-743: the document update, its cleanup and the old file
updateUserDocument(st, user_, hasFileToUpdate, imageId, o) ==
  LET updatedUser == sdkCall(st, "databases.updateDocument", Undefined,
                             o["updateDocument"],
                             [kind |-> "document", id |-> DocId(1), imageId |-> imageId])
  IN  IF updatedUser.rejected
      THEN Returns(Undefined, updatedUser.st)
      ELSE IF ~Truthy(updatedUser.val)
      THEN Returns(Undefined, IF hasFileToUpdate
                              THEN deleteFile(updatedUser.st, imageId, o).st
                              ELSE updatedUser.st)
      ELSE Returns(updatedUser.val, IF Truthy(user_.imageId) /\ hasFileToUpdate
                                    THEN deleteFile(updatedUser.st, user_.imageId, o).st
                                    ELSE updatedUser.st)

\* part_000:692-747
updateUser(st, user_, o) ==
  IF user_.hasFile
  THEN IF newImage(st, o).ok
       THEN updateUserDocument(newImage(st, o).st, user_, TRUE, newImage(st, o).imageId, o)
       ELSE Returns(Undefined, newImage(st, o).st)
  ELSE updateUserDocument(st, user_, FALSE, user_.imageId, o)

\* ---- the calls
\* identifiers a caller may pass: missing, empty, or an id
Identifiers == {Undefined, EmptyString, DocId(1), DocId(2)}

InitFacade ==
  \* a post with its image, and a file no post refers to
  /\ storage \in {{1}, {1, 2}}
  /\ posts \in {{}, {[id |-> DocId(1), imageId |-> DocId(1)]}}
  /\ nextId = 3
  /\ facadeCalls = 0
  /\ lastCall = Undefined
  /\ remoteLog = <<>>
  /\ userId = "u1"
  /\ LikesIdle
  /\ SaveIdle
  /\ AuthIdle
  /\ PageIdle

\* the call `op(args)` ends as r
Completes(op, args, r) ==
  /\ facadeCalls < MaxFacadeCalls
  /\ facadeCalls' = facadeCalls + 1
  /\ lastCall' = [op |-> op, args |-> args, ret |-> r.ret, raised |-> r.raised,
                  before |-> [storage |-> storage, posts |-> posts]]
  /\ storage' = r.st.storage
  /\ posts' = r.st.posts
  /\ nextId' = r.st.nextId
  /\ remoteLog' = r.st.log
  /\ UNCHANGED <<userId, likeVars, saveVars, authVars, pageVars>>

CallCreatePost ==
  \E o \in [{"createFile", "getFilePreview", "deleteFile", "createDocument"} -> Outcomes] :
    Completes("createPost", <<>>, createPost(FacadeState, o))

CallDeletePost ==
  \E postId \in Identifiers, imageId \in Identifiers :
    \E o \in [{"deleteDocument", "deleteFile"} -> Outcomes] :
      Completes("deletePost", <<postId, imageId>>,
                deletePost(FacadeState, postId, imageId, o))

CallSignUpAccount ==
  \E o \in [{"account.create", "createDocument"} -> Outcomes] :
    Completes("signUpAccount", <<>>, signUpAccount(FacadeState, o))

CallSaveUserToDB ==
  \E o \in [{"createDocument"} -> Outcomes] :
    Completes("saveUserToDB", <<>>, saveUserToDB(FacadeState, o))

CallSignInAccount ==
  \E o \in [{"createEmailPasswordSession"} -> Outcomes] :
    Completes("signInAccount", <<>>, signInAccount(FacadeState, o))

CallGetAccount ==
  \E o \in [{"account.get"} -> Outcomes] :
    Completes("getAccount", <<>>, getAccount(FacadeState, o))

CallGetCurrentUser ==
  \E documents \in {<<>>} \cup {<<d>> : d \in UserDocuments} :
    \E o \in [{"account.get", "listDocuments"} -> Outcomes] :
      Completes("getCurrentUser", <<documents>>,
                getCurrentUser(FacadeState, documents, o))

CallSignOutAccount ==
  \E o \in [{"deleteSession"} -> Outcomes] :
    Completes("signOutAccount", <<>>, signOutAccount(FacadeState, o))

CallUploadFile ==
  \E o \in [{"createFile"} -> Outcomes] :
    Completes("uploadFile", <<>>, uploadFile(FacadeState, o))

CallGetFilePreview ==
  \E fileId \in {DocId(1), DocId(2)} :
    \E o \in [{"getFilePreview"} -> Outcomes] :
      Completes("getFilePreview", <<fileId>>, getFilePreview(FacadeState, fileId, o))

CallDeleteFile ==
  \E fileId \in {DocId(1), DocId(2)} :
    \E o \in [{"deleteFile"} -> Outcomes] :
      Completes("deleteFile", <<fileId>>, deleteFile(FacadeState, fileId, o))

CallSearchPosts ==
  \E o \in [{"listDocuments"} -> Outcomes] :
    Completes("searchPosts", <<>>, searchPosts(FacadeState, o))

CallGetInfinitePosts ==
  \E pageParam \in {Undefined, DocId(1)} :
    \E o \in [{"listDocuments"} -> Outcomes] :
      Completes("getInfinitePosts", <<pageParam>>,
                getInfinitePosts(FacadeState, pageParam, o))

CallGetPostById ==
  \E postId \in Identifiers :
    \E o \in [{"getDocument"} -> Outcomes] :
      Completes("getPostById", <<postId>>, getPostById(FacadeState, postId, o))

CallUpdatePost ==
  \E hasFile \in BOOLEAN :
    \E o \in [{"createFile", "getFilePreview", "deleteFile", "updateDocument"} -> Outcomes] :
      Completes("updatePost", <<hasFile>>,
                updatePost(FacadeState,
                           [postId |-> DocId(1), imageId |-> DocId(1), hasFile |-> hasFile], o))

CallLikePost ==
  \E o \in [{"updateDocument"} -> Outcomes] :
    Completes("likePost", <<>>, likePost(FacadeState, o))

CallSavePost ==
  \E o \in [{"createDocument"} -> Outcomes] :
    Completes("savePost", <<>>, savePost(FacadeState, o))

CallDeleteSavedPost ==
  \E o \in [{"deleteDocument"} -> Outcomes] :
    Completes("deleteSavedPost", <<>>, deleteSavedPost(FacadeState, o))

CallGetUserPosts ==
  \E uid \in {Undefined, EmptyString, DocId(1)} :
    \E o \in [{"listDocuments"} -> Outcomes] :
      Completes("getUserPosts", <<uid>>, getUserPosts(FacadeState, uid, o))

CallGetRecentPosts ==
  \E o \in [{"listDocuments"} -> Outcomes] :
    Completes("getRecentPosts", <<>>, getRecentPosts(FacadeState, o))

CallGetUsers ==
  \E o \in [{"listDocuments"} -> Outcomes] :
    Completes("getUsers", <<>>, getUsers(FacadeState, o))

CallGetUserById ==
  \E o \in [{"getDocument"} -> Outcomes] :
    Completes("getUserById", <<>>, getUserById(FacadeState, o))

CallUpdateUser ==
  \E hasFile \in BOOLEAN, imageId \in {Undefined, DocId(1)} :
    \E o \in [{"createFile", "getFilePreview", "deleteFile", "updateDocument"} -> Outcomes] :
      Completes("updateUser", <<hasFile, imageId>>,
                updateUser(FacadeState, [imageId |-> imageId, hasFile |-> hasFile], o))

NextFacade ==
  \/ CallSignUpAccount
  \/ CallSaveUserToDB
  \/ CallSignInAccount
  \/ CallGetAccount
  \/ CallGetCurrentUser
  \/ CallSignOutAccount
  \/ CallCreatePost
  \/ CallUploadFile
  \/ CallGetFilePreview
  \/ CallDeleteFile
  \/ CallSearchPosts
  \/ CallGetInfinitePosts
  \/ CallGetPostById
  \/ CallUpdatePost
  \/ CallDeletePost
  \/ CallLikePost
  \/ CallSavePost
  \/ CallDeleteSavedPost
  \/ CallGetUserPosts
  \/ CallGetRecentPosts
  \/ CallGetUsers
  \/ CallGetUserById
  \/ CallUpdateUser

FacadeSpec == InitFacade /\ [][NextFacade]_vars

\* ================================================= specifications
Init == InitLikes
Next == NextLikes
Spec == Init /\ [][Next]_vars

\* ------------------------------------------------------------ claims
\* C1: applying the like toggle twice in succession returns the local likes
\* to the same set of user ids it had before the first toggle.
C1_ToggleTwiceSameSet ==
  \A k \in 1..Len(likesHistory) :
    k + 2 <= Len(likesHistory) =>
      Elems(likesHistory[k + 2]) = Elems(likesHistory[k])

\* C2 as stated: in every reachable state, whatever the initial likes list and
\* the number of toggles (zero included), no user id occurs twice in likes.
C2_NoUserTwice ==
  \A u \in Users : Count(likes, u) <= 1

\* C2 amended: after at least one toggle the acting user's id occurs at most
\* once, and when the post arrived with no user reference twice, no user id
\* occurs twice, whatever the number of toggles (zero included).
C2_NoUserTwiceAfterToggle ==
  /\ likeClicks >= 1 => Count(likes, userId) <= 1
  /\ (\A u \in Users : Count(likesList, u) <= 1) =>
       (\A u \in Users : Count(likes, u) <= 1)

\* the post arrived with the acting user twice, and after two toggles the
\* acting user is in the list once
C2_Witness ==
  /\ likeClicks = 2
  /\ Count(likesList, userId) = 2
  /\ Count(likes, userId) = 1

\* C3: with no refresh of the current-user query between save toggles, isSaved
\* is the saved status at the last refresh flipped once per toggle.
C3_IsSavedFollowsParity ==
  isSaved = IF savesSinceSync % 2 = 0 THEN isSavedAtSync ELSE ~isSavedAtSync

\* two toggles made, the acting user liked the post at the start (so the
\* first toggle removed and the second added) and the list changed in between
C1_Witness ==
  /\ likeClicks >= 2
  /\ Includes(likesHistory[1], userId)
  /\ ~Includes(likesHistory[2], userId)
  /\ Includes(likesHistory[3], userId)

\* C4: a checkAuthUser invocation that fails (no remote session, account fetch
\* error, user-document fetch error, no matching user document) returns false,
\* and no step of it changes the stored user or isAuthenticated.  (A step to
\* "idle" is the reload of the page, which discards the invocation.)
C4_FailedCheckLeavesState ==
  [][\A i \in Invocations :
       (pc'[i] # pc[i] /\ pc'[i] # "idle"
          /\ ~(pc'[i] = "done" /\ outcome'[i] = "ok")) =>
         /\ user' = user
         /\ isAuthenticated' = isAuthenticated
         /\ pc'[i] = "done" => ret'[i] = FALSE]_vars

\* the mount-time check succeeded, then a second check failed on the
\* user-document fetch, and the session state is still the first check's
C4_Witness ==
  /\ settleOrder = <<1, 2>>
  /\ outcome[1] = "ok"
  /\ outcome[2] = "user-document fetch error"
  /\ ret[2] = FALSE
  /\ isAuthenticated
  /\ user = UserFromDocument(fetched[1])

\* C5 as stated: every invocation called while a remote session exists
\* returns true, with isAuthenticated set and the six fields populated.
C5_SessionImpliesTrue ==
  \A i \in Invocations :
    (pc[i] = "done" /\ sessionAtCall[i]) => ret[i] = TRUE

\* C5 amended: an invocation whose account fetch and user-document fetch both
\* succeed and give a user document returns true, sets isAuthenticated and
\* sets the six user fields from that document.
C5_FetchedDocumentPopulatesUser ==
  [][\A i \in Invocations :
       (pc[i] = "listDocuments" /\ pc'[i] = "done" /\ Truthy(fetched'[i])) =>
         /\ ret'[i] = TRUE
         /\ isAuthenticated' = TRUE
         /\ user'.id = fetched'[i].id
         /\ user'.name = fetched'[i].name
         /\ user'.username = fetched'[i].username
         /\ user'.email = fetched'[i].email
         /\ user'.imageUrl = fetched'[i].imageUrl
         /\ user'.bio = fetched'[i].bio]_vars

\* a check called with a session has settled true and the store holds the
\* six fields of the remote user document
C5_Witness ==
  \E i \in Invocations :
    /\ pc[i] = "done" /\ sessionAtCall[i] /\ ret[i] = TRUE
    /\ isAuthenticated
    /\ remoteUserDocs # <<>>
    /\ user = [id |-> remoteUserDocs[1].id, name |-> remoteUserDocs[1].name,
               username |-> remoteUserDocs[1].username,
               email |-> remoteUserDocs[1].email,
               imageUrl |-> remoteUserDocs[1].imageUrl,
               bio |-> remoteUserDocs[1].bio]

\* the documents of a call that resolved
PageOf(k) == pageCalls[k].result.documents

\* page holds the `size` most recently updated of the documents `among`, most
\* recent first
IsNewestOf(page, among, size) ==
  /\ Len(page) = Min(size, Cardinality(among))
  /\ \A i \in 1..Len(page) : page[i] \in among
  /\ \A i \in 1..Len(page) : \A j \in 1..Len(page) :
       i < j => updatedAt[page[i]] > updatedAt[page[j]]
  /\ \A d \in among : \A i \in 1..Len(page) :
       d \notin Elems(page) => updatedAt[d] < updatedAt[page[i]]

\* C6: the first call (pageParam undefined) sends orderDesc($updatedAt) and
\* limit 9 with no cursor and returns the first 9 documents in that order; a
\* call with pageParam the last returned document's id adds a cursor-after on
\* that id and returns the next 9 documents, none of them in an earlier page.
C6_InfinitePostsPages ==
  \A k \in 1..Len(pageCalls) :
    LET call == pageCalls[k] IN
    /\ Len(SelectSeq(call.queries, LAMBDA q : q.method = "orderDesc")) = 1
    /\ Len(SelectSeq(call.queries, LAMBDA q : q.method = "limit")) = 1
    /\ QueryOf(call.queries, "orderDesc").attribute = "$updatedAt"
    /\ QueryOf(call.queries, "limit").value = 9
    /\ IF call.pageParam = Undefined
       THEN /\ ~HasQuery(call.queries, "cursorAfter")
            /\ call.result # Undefined =>
                 IsNewestOf(PageOf(k), DOMAIN updatedAt, 9)
       ELSE /\ Len(SelectSeq(call.queries, LAMBDA q : q.method = "cursorAfter")) = 1
            /\ QueryOf(call.queries, "cursorAfter").value = call.pageParam
            /\ call.result # Undefined =>
                 /\ IsNewestOf(PageOf(k),
                      {d \in DOMAIN updatedAt :
                         updatedAt[d] < updatedAt[call.pageParam.value]}, 9)
                 /\ \A j \in 1..(k - 1) :
                      pageCalls[j].result # Undefined =>
                        Elems(PageOf(k)) \cap Elems(PageOf(j)) = {}

\* two calls resolved, the second with the id of the first page's last
\* document, each with 9 documents
C6_Witness ==
  /\ Len(pageCalls) >= 2
  /\ pageCalls[1].pageParam = Undefined
  /\ pageCalls[1].result # Undefined /\ Len(PageOf(1)) = 9
  /\ pageCalls[2].pageParam = DocId(PageOf(1)[9])
  /\ pageCalls[2].result # Undefined /\ Len(PageOf(2)) = 9

\* the last facade call was op
Called(op) == lastCall # Undefined /\ lastCall.op = op

\* the SDK calls of that name the last facade call made
LogOf(call) == SelectSeq(remoteLog, LAMBDA e : e.call = call)

\* the last call was a createPost whose upload succeeded
UploadSucceeded ==
  /\ Called("createPost")
  /\ LogOf("storage.createFile") # <<>>
  /\ LogOf("storage.createFile")[1].outcome = "ok"

\* the file that createPost uploaded
UploadedFileId == LogOf("storage.createFile")[1].arg

\* the last call was a createPost whose upload succeeded and whose preview
\* URL retrieval failed
PreviewFailed ==
  /\ UploadSucceeded
  /\ LogOf("storage.getFilePreview") # <<>>
  /\ LogOf("storage.getFilePreview")[1].outcome # "ok"

\* C7 as stated: when the upload succeeds and the preview URL retrieval fails,
\* createPost returns undefined, the uploaded file is no longer in storage and
\* no post document was created.
C7_NoOrphanedFile ==
  PreviewFailed =>
    /\ lastCall.ret = Undefined /\ ~lastCall.raised
    /\ UploadedFileId.value \notin storage
    /\ posts = lastCall.before.posts

\* C7 amended: createPost then returns undefined, creates no post document and
\* issues exactly one deletion of the uploaded file; the file is gone when
\* that deletion resolved and is still in storage when it rejected.
C7_OneCleanupAttempt ==
  PreviewFailed =>
    /\ lastCall.ret = Undefined /\ ~lastCall.raised
    /\ posts = lastCall.before.posts
    /\ LogOf("databases.createDocument") = <<>>
    /\ Len(LogOf("storage.deleteFile")) = 1
    /\ LogOf("storage.deleteFile")[1].arg = UploadedFileId
    /\ LogOf("storage.deleteFile")[1].outcome # "reject" =>
         UploadedFileId.value \notin storage
    /\ LogOf("storage.deleteFile")[1].outcome = "reject" =>
         UploadedFileId.value \in storage

\* the preview failed, the deletion resolved and the uploaded file is gone
C7_Witness ==
  /\ PreviewFailed
  /\ LogOf("storage.deleteFile") # <<>>
  /\ LogOf("storage.deleteFile")[1].outcome = "ok"
  /\ UploadedFileId.value \notin storage
  /\ lastCall.ret = Undefined

C10_CleanupAfterFailedWrite ==
  (UploadSucceeded
     /\ LogOf("databases.createDocument") # <<>>
     /\ LogOf("databases.createDocument")[1].outcome # "ok") =>
    \E i \in 1..Len(remoteLog) :
      /\ remoteLog[i].call = "storage.deleteFile"
      /\ remoteLog[i].arg = UploadedFileId

\* the last call was made without an identifier it needs
MissingIdentifier ==
  \/ (Called("getPostById") \/ Called("getUserPosts")) /\ ~Truthy(lastCall.args[1])
  \/ Called("deletePost") /\ (~Truthy(lastCall.args[1]) \/ ~Truthy(lastCall.args[2]))

\* the SDK calls of the last facade call that rejected or resolved falsy
FailedCalls == SelectSeq(remoteLog, LAMBDA e : e.outcome # "ok")

\* the same without the file deletions an operation makes after its outcome
\* is decided (a cleanup, or the removal of the replaced file)
PrimaryFailures ==
  SelectSeq(remoteLog, LAMBDA e :
    e.outcome # "ok" /\ (e.call = "storage.deleteFile" => Called("deleteFile")))

Started == {i \in Invocations : pc[i] = "idle" /\ pc'[i] # "idle"}

\* C11: the mount effect issues the redirect to /sign-in if and only if the
\* cookieFallback marker is null or "[]", and with or without the redirect it
\* invokes checkAuthUser exactly once.
C11_MountRedirectsAndChecks ==
  [][(~mounted /\ mounted') =>
       /\ redirected' <=> cookieFallback \in {"null", "[]"}
       /\ location' = IF cookieFallback \in {"null", "[]"} THEN "/sign-in" ELSE location
       /\ Cardinality(Started) = 1
       /\ calls'[1] = <<"account.get">>]_vars

\* mounted with an empty marker: redirected from / to /sign-in, and the one
\* check of the mount effect is under way
C11_Witness ==
  /\ mounted /\ cookieFallback = "[]"
  /\ redirected /\ location = "/sign-in"
  /\ pc[1] = "account.get"
  /\ \A i \in Invocations : i # 1 => pc[i] = "idle"

C13_LayoutFollowsSession ==
  mounted =>
    /\ isAuthenticated => location \notin PublicRoutes
    /\ location \in PrivateRoutes => isAuthenticated

\* no session check and no sign-out is in flight
SessionSettled ==
  /\ mounted
  /\ \A i \in Invocations : pc[i] \in {"idle", "done"}
  /\ pc[1] = "done"
  /\ signOutsPending = 0 /\ topSignOuts = 0

\* a step in which a sign-out is made from the side bar, or one of the top bar
\* succeeds
SignsOut ==
  \/ signOutsPending' > signOutsPending
  \/ topSignOuts > 0 /\ remoteSession /\ ~remoteSession' /\ signOutsPending' = 0

\* C14: once the session checks and the sign-outs made have settled,
\* isAuthenticated is true exactly when a remote session exists, and a sign-out
\* leaves the stored user equal to INITIAL_USER.
C14_IsAuthenticatedMirrorsSession ==
  /\ [](SessionSettled => (isAuthenticated <=> remoteSession))
  /\ [][SignsOut => user' = INITIAL_USER]_vars

\* C15: a like click changes the local likes while the remote likes are still
\* the old ones (the update is only issued), the settling of an update, resolved
\* or rejected, leaves the local likes as they are, and the local likes change
\* in no other step than a click.
C15_LikesChangeOnlyOnClick ==
  [][/\ likeClicks' = likeClicks + 1 =>
          /\ likes' # likes
          /\ remoteLikes' = remoteLikes
          /\ likeMutations' # likeMutations
     /\ likeMutations' # likeMutations /\ likeMutations' \subseteq likeMutations =>
          likes' = likes
     /\ likes' # likes => likeClicks' = likeClicks + 1]_vars

\* the update of the only click was rejected: nothing is in flight and the
\* local likes differ from the remote ones
C15_Witness ==
  /\ likeClicks = 1
  /\ likeMutations = {} /\ applied = <<>>
  /\ remoteLikes = likesList
  /\ likes # remoteLikes

\* the updates a step issues
Issued == likeMutations' \ likeMutations

HasRecordForPost ==
  /\ currentUser # Undefined
  /\ \E k \in 1..Len(currentUser.save) : currentUser.save[k].post.id = ThisPost

\* the save mutations a step issues
IssuedSaves == saveMutations' \ saveMutations

\* C17: a save click issues exactly one remote operation: with a record for
\* this post in the current user's save list, isSaved becomes false and the
\* operation is a delete of a record of this post by its id; without one,
\* isSaved becomes true and the operation is a create for (user, post).
C17_OneOperationPerSaveClick ==
  [][saveClicks' = saveClicks + 1 =>
       /\ Cardinality(IssuedSaves) = 1
       /\ Len(saveTrace') = Len(saveTrace) + 1
       /\ IF HasRecordForPost
          THEN /\ isSaved' = FALSE
               /\ \A m \in IssuedSaves :
                    /\ m.op = "deleteSavedPost"
                    /\ \E k \in 1..Len(currentUser.save) :
                         /\ currentUser.save[k].post.id = ThisPost
                         /\ currentUser.save[k].id = m.savedRecordId
          ELSE /\ isSaved' = TRUE
               /\ \A m \in IssuedSaves :
                    m.op = "savePost" /\ m.userId = userId /\ m.postId = ThisPost]_vars

\* a click on a saved post: isSaved is false and the delete of its record is
\* in flight
C17_Witness ==
  /\ saveClicks = 1
  /\ HasRecordForPost
  /\ isSaved = FALSE
  /\ \E m \in saveMutations : m.op = "deleteSavedPost"

\* the events of the save trace with this outcome
TraceOf(ev) == SelectSeq(saveTrace, LAMBDA e : e.ev = ev)

\* the remote save records of this user and this post
RecordsOfPair == {r \in remoteSaves : r.user = userId /\ r.post = ThisPost}

\* two clicks, no refresh of the current-user query since the page showed the
\* post as not saved
TwoClicksOnUnsaved ==
  /\ saveClicks = 2 /\ savesSinceSync = 2
  /\ currentUser # Undefined
  /\ ~HasRecordForPost

\* C18: two save clicks on a post that is not saved, made before the
\* current-user query refreshes, issue two creates and no delete; when both
\* have resolved the remote holds two save records with this (user, post).
C18_TwoCreatesTwoRecords ==
  TwoClicksOnUnsaved =>
    /\ \A k \in 1..Len(saveTrace) : saveTrace[k].op = "savePost"
    /\ Len(TraceOf("issued")) = 2
    /\ Len(TraceOf("resolved")) = 2 => Cardinality(RecordsOfPair) = 2

\* both creates have resolved and the remote holds two records of the pair
C18_Witness ==
  /\ TwoClicksOnUnsaved
  /\ Len(TraceOf("resolved")) = 2
  /\ Cardinality(RecordsOfPair) = 2

\* a step in which a checkAuthUser invocation settles
Settles == \E i \in Invocations : pc[i] # "done" /\ pc'[i] = "done"

\* C19: the mount effect decides the redirect from the marker alone, while its
\* check is still in flight, and no settling check changes the location.
C19_RedirectNotRevisited ==
  [][/\ (~mounted /\ mounted') =>
          /\ redirected' <=> cookieFallback \in {"null", "[]"}
          /\ pc'[1] = "account.get"
     /\ Settles => location' = location /\ redirected' = redirected]_vars

\* no marker, a valid remote session: redirected to /sign-in by the mount
\* effect, whose check then succeeded; the location is still /sign-in
C19_Witness ==
  /\ cookieFallback = "null"
  /\ remoteSession
  /\ redirected
  /\ pc[1] = "done" /\ ret[1] = TRUE
  /\ isAuthenticated
  /\ location = "/sign-in"

\* C20: an invocation of checkAuthUser issues the account fetch once, and
\* after it the user-document fetch at most once and only when the account
\* fetch has succeeded; nothing is fetched again.
C20_SingleAttempt ==
  \A i \in Invocations :
    /\ calls[i] \in {<<>>, <<"account.get">>, <<"account.get", "listDocuments">>}
    /\ calls[i] = <<>> <=> pc[i] = "idle"
    /\ pc[i] = "account.get" => calls[i] = <<"account.get">>
    /\ pc[i] = "listDocuments" => calls[i] = <<"account.get", "listDocuments">>
    /\ pc[i] = "done" =>
         (calls[i] = <<"account.get", "listDocuments">>
            <=> outcome[i] \notin {"no remote session", "account fetch error"})

\* an invocation has settled after both fetches, the second of which failed
C20_Witness ==
  \E i \in Invocations :
    /\ pc[i] = "done"
    /\ outcome[i] = "user-document fetch error"
    /\ calls[i] = <<"account.get", "listDocuments">>


\* the last call was an updatePost or updateUser with a new file, made for a
\* record that has an image file, and it reached its document update (the
\* upload and the preview URL retrieval succeeded)
UpdatedWithNewFile ==
  /\ Called("updatePost") \/ (Called("updateUser") /\ Truthy(lastCall.args[2]))
  /\ lastCall.args[1]
  /\ LogOf("databases.updateDocument") # <<>>

\* the file the record referred to before the call, and the file the call
\* uploaded
OldFileId == DocId(1)
NewFileId == LogOf("storage.createFile")[1].arg

\* the document update of the last call succeeded
DocumentUpdated == LogOf("databases.updateDocument")[1].outcome = "ok"

\* C21: after updatePost or updateUser with a new file has returned, exactly
\* one of the two image files is kept: the new one when the document update
\* succeeded, the old one when it failed (rejected or falsy); and the old file
\* is never deleted before the document update has succeeded.
C21_ExactlyOneFileKept ==
  UpdatedWithNewFile =>
    /\ IF DocumentUpdated
       THEN OldFileId.value \notin storage /\ NewFileId.value \in storage
       ELSE NewFileId.value \notin storage /\ OldFileId.value \in storage
    /\ \A i \in 1..Len(remoteLog) :
         (remoteLog[i].call = "storage.deleteFile" /\ remoteLog[i].arg = OldFileId) =>
           \E j \in 1..(i - 1) :
             /\ remoteLog[j].call = "databases.updateDocument"
             /\ remoteLog[j].outcome = "ok"


\* the last call was a deletePost with both ids defined
DeletePostWithBothIds ==
  /\ Called("deletePost")
  /\ Truthy(lastCall.args[1]) /\ Truthy(lastCall.args[2])

InFlight == {i \in Invocations : pc[i] \in {"account.get", "listDocuments"}}

\* C23: whenever at least one checkAuthUser invocation is in flight, isLoading
\* is true, also when invocations overlap.
C23_LoadingWhileInFlight == InFlight # {} => isLoading


\* C24: a like toggle by the acting user leaves the entries of every other
\* user unchanged in content, multiplicity and relative order; it removes all
\* occurrences of the acting user's id when the id is present, and otherwise
\* appends the id once at the end.
C24_ToggleLeavesOthers ==
  \A k \in 1..(Len(likesHistory) - 1) :
    LET before == likesHistory[k]
        after == likesHistory[k + 1]
    IN  /\ FilterOut(after, userId) = FilterOut(before, userId)
        /\ IF Includes(before, userId)
           THEN Count(after, userId) = 0 /\ after = FilterOut(before, userId)
           ELSE after = Append(before, userId) /\ Count(after, userId) = 1

\* the acting user was in the list twice, around another user's entry; one
\* click removed both occurrences and the next one appended the id after the
\* other user's entry
C24_Witness ==
  /\ Len(likesHistory) >= 3
  /\ Count(likesHistory[1], userId) = 2
  /\ likesHistory[1][2] # userId
  /\ likesHistory[2] = <<likesHistory[1][2]>>
  /\ likesHistory[3] = <<likesHistory[1][2], userId>>

====
